---------------------------- MODULE Spec2Model ----------------------------
(***************************************************************************)
(* Model of the spreadsheet import of the product database:                *)
(* app/productdb/excel_import.py (BaseExcelImporter, ProductsExcelImporter)*)
(* against the Product model of app/productdb/models.py.                   *)
(*                                                                         *)
(* The datastore (Django ORM), the revision log (django-reversion) and the *)
(* workbook (pandas) are modelled by what the importer observes of them:   *)
(* get / get_or_create / save, one revision per committed transaction, and *)
(* a sheet of rows under a header of column names.                         *)
(***************************************************************************)
EXTENDS Integers, Sequences, FiniteSets, TLC

VARIABLES
    workbook,                 \* the Excel file: [sheet_names, columns, rows]
    valid_file,               \* BaseExcelImporter.valid_file
    wb_data_frame,            \* BaseExcelImporter.__wb_data_frame__:
                              \* [loaded, columns, rows]
    date_order,               \* the order in which data_map.keys() iterates
    valid_imported_products,  \* ProductsExcelImporter.valid_imported_products
    invalid_products,         \* ProductsExcelImporter.invalid_products
    import_result_messages,   \* BaseExcelImporter.import_result_messages
    update_only,              \* argument of the running import_to_database call
    current_entry,            \* position of the row loop (1-based)
    p,                        \* local variable p of import_to_database
    pc,                       \* "idle" | "loop": where the importer is
    product_db,               \* table Product, by product_id
    group_db,                 \* table ProductGroup: set of (name, vendor)
    revisions,                \* revision log: committed revisions per product_id
    save_failures,            \* transactional saves that failed so far
    lookup_errors,            \* unexpected lookup exceptions so far
    runs,                     \* import_to_database calls started so far
    last_call,                \* how the last call of the importer ended
    last,                     \* history: what the last loop iteration did
    run_log,                  \* history: the result of every finished run
    \* ProductMigrationsExcelImporter
    migration_workbook,       \* the sheet "product_migrations": [columns, rows]
    migration_frame,          \* its __wb_data_frame__: [loaded, columns, rows]
    migration_messages,       \* its import_result_messages
    migration_entry,          \* position of its row loop (1-based)
    migration_pc,             \* "idle" | "loop"
    source_db,                \* table ProductMigrationSource, by name
    option_db,                \* table ProductMigrationOption: set of records
    validation_failures,      \* saves that raised ValidationError so far
    migration_runs,           \* its import_to_database calls started so far
    migration_last            \* history: what its last loop iteration did

\* the variables of the migration importer and of its tables
migration_vars ==
    <<migration_workbook, migration_frame, migration_messages,
      migration_entry, migration_pc, source_db, option_db,
      validation_failures, migration_runs, migration_last>>

\* the variables of the product importer and of its tables
product_vars ==
    <<workbook, valid_file, wb_data_frame, date_order,
      valid_imported_products, invalid_products, import_result_messages,
      update_only, current_entry, p, pc, product_db, group_db, revisions,
      save_failures, lookup_errors, runs, last_call, last, run_log>>

vars == <<product_vars, migration_vars>>

-----------------------------------------------------------------------------
(* Bounds of the model *)

\* rows in a workbook of the general specification
MaxRows == 2
\* import_to_database calls on one importer
MaxRuns == 2
\* transactional saves that the datastore lets fail in one behaviour
MaxSaveFailures == 1
\* unexpected exceptions of Product.objects.get in one behaviour
MaxLookupErrors == 1
\* saves of a migration option that raise ValidationError in one behaviour
MaxValidationFailures == 1

-----------------------------------------------------------------------------
(* Values *)

\* pandas' NaN / None in a column read as text (pd.isnull)
Null == "NaN"

\* a NaN cell in a column whose text the importer takes apart
NullText == <<"NaN">>

IsNull(v) == v = Null

IsNullText(v) == v = NullText

\* the currency codes of the model
EUR == <<"E", "U", "R">>

USD == <<"U", "S", "D">>

CURRENCY_CHOICES == {EUR, USD}

\* str.upper(), on the letters the inputs use
UpperChar(c) ==
    CASE c = "e" -> "E"
      [] c = "u" -> "U"
      [] c = "r" -> "R"
      [] c = "s" -> "S"
      [] c = "d" -> "D"
      [] c = "x" -> "X"
      [] OTHER -> c

Upper(s) == [i \in 1..Len(s) |-> UpperChar(s[i])]

\* str.split(" "): every single space separates, so n spaces give n + 1
\* tokens and two spaces in a row give an empty token
Split(s) ==
    LET spaces == {i \in 1..Len(s) : s[i] = " "}
        n      == Cardinality(spaces)
        \* the position of the k-th space; 0 and Len(s) + 1 bound the text
        at(k)  == IF k = 0 THEN 0
                  ELSE IF k = n + 1 THEN Len(s) + 1
                  ELSE CHOOSE i \in spaces :
                           Cardinality({j \in spaces : j < i}) = k - 1
    IN  [k \in 1..(n + 1) |-> SubSeq(s, at(k - 1) + 1, at(k) - 1)]

Digits == {"0", "1", "2", "3", "4", "5", "6", "7", "8", "9"}

DigitVal(c) ==
    CASE c = "0" -> 0 [] c = "1" -> 1 [] c = "2" -> 2 [] c = "3" -> 3
      [] c = "4" -> 4 [] c = "5" -> 5 [] c = "6" -> 6 [] c = "7" -> 7
      [] c = "8" -> 8 [] OTHER -> 9

RECURSIVE NatOf(_)
NatOf(ds) == IF ds = <<>> THEN 0
             ELSE 10 * NatOf(SubSeq(ds, 1, Len(ds) - 1)) + DigitVal(ds[Len(ds)])

DotPositions(s) == {i \in 1..Len(s) : s[i] = "."}

\* float(text) for a decimal numeral with at most two fraction digits (all the
\* inputs of the model use): the value in hundredths, or a ValueError.
ParseFloat(s) ==
    LET dots == DotPositions(s)
        dot  == IF dots = {} THEN Len(s) + 1 ELSE CHOOSE i \in dots : TRUE
        ip   == SubSeq(s, 1, dot - 1)
        fp   == SubSeq(s, dot + 1, Len(s))
        ok   == /\ Cardinality(dots) <= 1
                /\ Len(ip) + Len(fp) >= 1
                /\ Len(fp) <= 2
                /\ \A i \in 1..Len(ip) : ip[i] \in Digits
                /\ \A i \in 1..Len(fp) : fp[i] \in Digits
        frac == IF Len(fp) = 0 THEN 0
                ELSE IF Len(fp) = 1 THEN 10 * NatOf(fp)
                ELSE NatOf(fp)
    IN  IF ok THEN [ok |-> TRUE, cents |-> 100 * NatOf(ip) + frac]
        ELSE [ok |-> FALSE, cents |-> 0]

\* Prices. The datastore holds a DecimalField with two decimal places; the
\* importer computes Python floats. kind: "none" | "dec" | "float".
NoPrice == [kind |-> "none", cents |-> 0]

FloatPrice(c) == [kind |-> "float", cents |-> c]

DecPrice(c) == [kind |-> "dec", cents |-> c]

\* whether the binary float nearest to cents/100 is exactly cents/100
FloatExact(c) == c % 25 = 0

\* Python's a == b for None, Decimal and float: a Decimal equals a float only
\* when the float's exact binary value is that decimal number
PriceEq(a, b) ==
    IF a.kind = "none" \/ b.kind = "none" THEN a.kind = b.kind
    ELSE IF a.kind = b.kind THEN a.cents = b.cents
    ELSE a.cents = b.cents /\ FloatExact(a.cents)

\* what the DecimalField stores and returns for a value assigned to it
ToDecimal(a) == IF a.kind = "none" THEN NoPrice ELSE DecPrice(a.cents)


-----------------------------------------------------------------------------
(* The workbook: sheets, header and rows *)

\* A column name as written in the header: its text in lower case without
\* surrounding blanks, whether it is written with capitals, and whether blanks
\* surround it.
Col(name) == [name |-> name, upper |-> FALSE, padded |-> FALSE]

\* str.lower()
Lower(c) == [c EXCEPT !.upper = FALSE]

\* str.strip()
Strip(c) == [c EXCEPT !.padded = FALSE]

sheetname == "products"

required_keys == {Col("product id"), Col("description"), Col("list price"),
                  Col("vendor")}

drop_na_columns == {Col("product id")}

\* a "list price" cell: type is "null" | "str" | "float" | "int" | "other"
NullPrice == [type |-> "null", text |-> <<>>, cents |-> 0]

StrPrice(t) == [type |-> "str", text |-> t, cents |-> 0]

NumPrice(ty, c) == [type |-> ty, text |-> <<>>, cents |-> c]

\* columns of the frame after _create_data_frame: lower-cased, then stripped
NormalizedColumns(columns) == {Strip(Lower(c)) : c \in columns}

\* DataFrame.dropna(axis=0, subset=drop_na_columns): the rows with a NaN in one
\* of the columns are dropped, the others keep their order
DropNa(rows) == SelectSeq(rows, LAMBDA r : ~IsNull(r.product_id))

\* "row_key in row"
Has(cols, key) == Col(key) \in cols

\* data_map: product attribute -> data frame column, in the order written
data_map == <<
    [attr |-> "eox_update_time_stamp", col |-> "eox update timestamp"],
    [attr |-> "eol_ext_announcement_date", col |-> "eol announcement date"],
    [attr |-> "end_of_sale_date", col |-> "end of sale date"],
    [attr |-> "end_of_new_service_attachment_date",
     col |-> "end of new service attachment date"],
    [attr |-> "end_of_sw_maintenance_date", col |-> "end of sw maintenance date"],
    [attr |-> "end_of_routine_failure_analysis",
     col |-> "end of routing failure analysis date"],
    [attr |-> "end_of_service_contract_renewal",
     col |-> "end of service contract renewal date"],
    [attr |-> "end_of_support_date", col |-> "last date of support"],
    [attr |-> "end_of_sec_vuln_supp_date",
     col |-> "end of security/vulnerability support date"] >>

DateAttrs == {data_map[i].attr : i \in 1..Len(data_map)}

DateCols == {data_map[i].col : i \in 1..Len(data_map)}

\* a DateField without a value
NoDate == [set |-> FALSE, day |-> 0]

Date(d) == [set |-> TRUE, day |-> d]

\* a cell of a date column: type is "null" | "timestamp" | "other"
NullCell == [type |-> "null", day |-> 0]

TimestampCell(d) == [type |-> "timestamp", day |-> d]

OtherCell == [type |-> "other", day |-> 0]

NoDates == [a \in DateAttrs |-> NoDate]

NullDateCells == [c \in DateCols |-> NullCell]

-----------------------------------------------------------------------------
(* The datastore *)

\* table Vendor; id 0 is the "unassigned" vendor, which Vendor.delete keeps
VendorTable == {[id |-> 0, name |-> "unassigned"],
                [id |-> 1, name |-> "Acme"],
                [id |-> 2, name |-> "Bolt"]}

VendorName(id) == (CHOOSE v \in VendorTable : v.id = id).name

VendorsNamed(name) == {v \in VendorTable : v.name = name}

\* Product.vendor: default=0
DefaultVendor == 0

\* Vendor.objects.get(id=0)
UnassignedVendor == 0

NoGroup == [name |-> Null, vendor |-> DefaultVendor]

ProductIds == {"A", "B"}

\* a Product of the given vendor, every other field at the default of the
\* model
ProductOfVendor(pid, vendor) ==
    [present |-> TRUE,
     product_id |-> pid,
     description |-> "not set",
     list_price |-> NoPrice,
     currency |-> USD,
     vendor |-> vendor,
     product_group |-> NoGroup,
     eol_reference_url |-> Null,
     eol_reference_number |-> Null,
     internal_product_id |-> Null,
     dates |-> NoDates]

\* variant of NewProduct: the vendor column defaults to "Acme" (id 1)
NewProductOfAcme(pid) == ProductOfVendor(pid, 1)

\* a Product as the model's defaults make it (Product.objects.create)
NewProduct(pid) == ProductOfVendor(pid, DefaultVendor)

\* no row of table Product for pid
Absent(pid) == [NewProduct(pid) EXCEPT !.present = FALSE]

\* the row that Model.save() writes for the object o: the DecimalField
\* stores the price as a decimal
Stored(o) == [o EXCEPT !.list_price = ToDecimal(o.list_price)]

\* the local variable p before its first assignment
Unbound == Absent(Null)

-----------------------------------------------------------------------------
(* One row of ProductsExcelImporter.import_to_database: the try block that   *)
(* applies the columns to p. A stage works on                                *)
(*   [p, changed, faulty, row_key, reason, groups, new_price, new_currency]  *)
(* and a raised exception ends the block with faulty set, row_key at the     *)
(* column being read and reason the exception.                               *)

Raise(s, reason) == [s EXCEPT !.faulty = TRUE, !.reason = reason]

\* The one element of a set of one element.
The(S) == CHOOSE x \in S : TRUE

\* row_key = "description"
SetDescription(s0, row, cols) ==
    LET s == [s0 EXCEPT !.row_key = "description"]
    IN  IF ~Has(cols, "description") THEN Raise(s, "KeyError")
        ELSE IF ~IsNull(row.description) /\ s.p.description # row.description
        THEN [s EXCEPT !.p.description = row.description, !.changed = TRUE]
        ELSE s

\* variant of ParseListPriceText: the first token is the price, whatever
\* follows it
ParseListPriceTextLenient(s, text) ==
    LET f == ParseFloat(Split(text)[1])
    IN  IF f.ok THEN [s EXCEPT !.new_price = FloatPrice(f.cents)]
        ELSE Raise(s, "could not convert string to float")

\* the text of a "list price" cell taken apart
ParseListPriceText(s, text) ==
    LET price == Split(text)
    IN  IF Len(price) = 1
        THEN LET f == ParseFloat(text)
             IN  IF f.ok THEN [s EXCEPT !.new_price = FloatPrice(f.cents)]
                 ELSE Raise(s, "could not convert string to float")
        ELSE IF Len(price) = 2
        THEN LET f == ParseFloat(price[1])
             IN  IF ~f.ok
                 THEN Raise(s, "cannot convert price information to float")
                 ELSE IF Upper(price[2]) \in CURRENCY_CHOICES
                 THEN [s EXCEPT !.new_price = FloatPrice(f.cents),
                                !.new_currency = Upper(price[2])]
                 ELSE Raise(s, "cannot set currency unknown value")
        ELSE Raise(s, "invalid format for list price, detected multiple spaces")

\* row_key = "list price": new_price and new_currency
ReadListPrice(s0, row, cols) ==
    LET s    == [s0 EXCEPT !.row_key = "list price", !.new_currency = USD]
        cell == row.list_price
    IN  IF ~Has(cols, "list price") THEN Raise(s, "KeyError")
        ELSE IF cell.type = "null" THEN [s EXCEPT !.new_price = NoPrice]
        ELSE IF cell.type \in {"float", "int"}
        THEN [s EXCEPT !.new_price = FloatPrice(cell.cents)]
        ELSE IF cell.type = "str" THEN ParseListPriceText(s, cell.text)
        ELSE Raise(s, "invalid data-type for list price")

\* row_key = "currency": the optional column overrides new_currency
ReadCurrency(s0, row, cols) ==
    LET s == [s0 EXCEPT !.row_key = "currency"]
    IN  IF Has(cols, "currency") /\ ~IsNullText(row.currency)
        THEN IF Upper(row.currency) \in CURRENCY_CHOICES
             THEN [s EXCEPT !.new_currency = Upper(row.currency)]
             ELSE Raise(s, "cannot set currency unknown value")
        ELSE s

\* variant of ApplyPrice: the currency is applied only with a new list price
ApplyPriceAndItsCurrency(s) ==
    IF s.new_price.kind = "none" \/ PriceEq(s.p.list_price, s.new_price)
    THEN s
    ELSE [s EXCEPT !.p.list_price = s.new_price,
                   !.p.currency = s.new_currency, !.changed = TRUE]

\* apply the new list price and currency if required
ApplyPrice(s) ==
    IF s.new_price.kind = "none" THEN s
    ELSE LET s1 == IF ~PriceEq(s.p.list_price, s.new_price)
                   THEN [s EXCEPT !.p.list_price = s.new_price,
                                  !.changed = TRUE]
                   ELSE s
         IN  IF s1.p.currency # s1.new_currency
             THEN [s1 EXCEPT !.p.currency = s1.new_currency, !.changed = TRUE]
             ELSE s1

\* row_key = "vendor"
SetVendor(s0, row, cols, created) ==
    LET s == [s0 EXCEPT !.row_key = "vendor"]
    IN  IF ~Has(cols, "vendor") THEN Raise(s, "KeyError")
        ELSE IF IsNull(row.vendor) /\ created
        THEN [s EXCEPT !.p.vendor = UnassignedVendor, !.changed = TRUE]
        ELSE IF ~IsNull(row.vendor) /\ VendorName(s.p.vendor) # row.vendor
        THEN IF VendorsNamed(row.vendor) = {}
             THEN Raise(s, "Vendor doesn't exist")
             ELSE [s EXCEPT
                     !.p.vendor = (CHOOSE v \in VendorsNamed(row.vendor) : TRUE).id,
                     !.changed = TRUE]
        ELSE s

\* row_key = "product group": ProductGroup.objects.get_or_create writes the
\* group at once, outside any transaction
SetProductGroup(s0, row, cols) ==
    LET s == [s0 EXCEPT !.row_key = "product group"]
        set_value == \/ s.p.product_group = NoGroup
                     \/ s.p.product_group.name # row.product_group
        pg == [name |-> row.product_group, vendor |-> s.p.vendor]
    IN  IF Has(cols, "product group") /\ ~IsNull(row.product_group) /\ set_value
        THEN [s EXCEPT !.groups = s.groups \cup {pg},
                       !.changed = TRUE,
                       !.p.product_group = pg]
        ELSE s

\* row_key = "eol note url"
SetEolUrl(s0, row, cols) ==
    LET s == [s0 EXCEPT !.row_key = "eol note url"]
    IN  IF /\ Has(cols, "eol note url")
           /\ ~IsNull(row.eol_note_url)
           /\ s.p.eol_reference_url # row.eol_note_url
        THEN [s EXCEPT !.p.eol_reference_url = row.eol_note_url,
                       !.changed = TRUE]
        ELSE s

\* row_key = "eol note url (friendly name)": assigned, changed is left alone
SetEolFriendlyName(s0, row, cols) ==
    LET s == [s0 EXCEPT !.row_key = "eol note url (friendly name)"]
    IN  IF /\ Has(cols, "eol note url (friendly name)")
           /\ ~IsNull(row.eol_friendly_name)
           /\ s.p.eol_reference_number # row.eol_friendly_name
        THEN [s EXCEPT !.p.eol_reference_number = row.eol_friendly_name]
        ELSE s

\* row_key = "internal product id"
SetInternalProductId(s0, row, cols) ==
    LET s == [s0 EXCEPT !.row_key = "internal product id"]
    IN  IF /\ Has(cols, "internal product id")
           /\ ~IsNull(row.internal_product_id)
           /\ s.p.internal_product_id # row.internal_product_id
        THEN [s EXCEPT !.p.internal_product_id = row.internal_product_id,
                       !.changed = TRUE]
        ELSE s

\* the whole try block, for the object p0 and changed = created
ApplyColumns(p0, row, cols, created, groups) ==
    LET s0 == [p |-> p0, changed |-> created, faulty |-> FALSE,
               date_faulty |-> FALSE,
               row_key |-> "description", reason |-> "", groups |-> groups,
               new_price |-> NoPrice, new_currency |-> USD]
        s1 == {SetDescription(s, row, cols) : s \in {s0}}
        s2 == {IF s.faulty THEN s ELSE ReadListPrice(s, row, cols) : s \in s1}
        s3 == {IF s.faulty THEN s ELSE ReadCurrency(s, row, cols) : s \in s2}
        s4 == {IF s.faulty THEN s ELSE ApplyPrice(s) : s \in s3}
        s5 == {IF s.faulty THEN s ELSE SetVendor(s, row, cols, created) :
                  s \in s4}
        s6 == {IF s.faulty THEN s ELSE SetProductGroup(s, row, cols) :
                  s \in s5}
        s7 == {IF s.faulty THEN s ELSE SetEolUrl(s, row, cols) : s \in s6}
        s8 == {IF s.faulty THEN s ELSE SetEolFriendlyName(s, row, cols) :
                  s \in s7}
    IN  The({IF s.faulty THEN s ELSE SetInternalProductId(s, row, cols) :
                s \in s8})

-----------------------------------------------------------------------------
(* The lifecycle date columns *)

\* BaseExcelImporter._import_datetime_column_from_file, on the object o:
\* [p, changed, faulty_entry]. A cell that is no timestamp gives newval None,
\* and row[row_key].date() raises only when currval differs from None.
ImportDatetimeColumn(row_key, row, target_key, o, cols) ==
    LET cell    == row.dates[row_key]
        currval == o.dates[target_key]
        newval  == IF cell.type = "timestamp" THEN Date(cell.day) ELSE NoDate
    IN  IF Has(cols, row_key) /\ cell.type # "null" /\ currval # newval
        THEN IF cell.type = "timestamp"
             THEN [p |-> [o EXCEPT !.dates[target_key] = newval],
                   changed |-> TRUE, faulty_entry |-> FALSE]
             ELSE [p |-> o, changed |-> FALSE, faulty_entry |-> TRUE]
        ELSE [p |-> o, changed |-> FALSE, faulty_entry |-> FALSE]

\* one column of "for key in data_map.keys()", on the state s of the row
ImportDateColumn(s, m, row, cols) ==
    LET r == ImportDatetimeColumn(m.col, row, m.attr, s.p, cols)
    IN  IF r.faulty_entry
        THEN [s EXCEPT !.faulty = TRUE, !.row_key = m.col,
                       !.reason = "AttributeError", !.date_faulty = TRUE]
        ELSE [s EXCEPT !.p = r.p, !.changed = s.changed \/ r.changed]

\* "for key in data_map.keys()" from position i of the iteration order on,
\* for the state in S (a set of one state): the first faulty column breaks
\* the loop. The loop runs whether or not the try block ended in an
\* exception.
RECURSIVE ImportDates(_, _, _, _, _)
ImportDates(S, row, cols, order, i) ==
    IF i > Len(order) THEN S
    ELSE ImportDates({IF s.date_faulty THEN s
                      ELSE ImportDateColumn(s, data_map[order[i]], row, cols) :
                          s \in S},
                     row, cols, order, i + 1)

-----------------------------------------------------------------------------
(* The importer *)

\* "terminate the process after 30 errors"
ErrorBudget == 30

\* variant of BudgetExceeded: the loop ends one faulty row later
BudgetExceededLate(invalid) == invalid > ErrorBudget + 1

\* "if self.invalid_products > 30"
BudgetExceeded(invalid) == invalid > ErrorBudget

\* an entry of import_result_messages. kind is "created" | "updated" |
\* "unchanged" | "cannot set" | "cannot save" | "too many errors"; pid is the
\* product id the text names, key the column it names
Msg(kind, pid, key, reason) ==
    [kind |-> kind, pid |-> pid, key |-> key, reason |-> reason]

TooManyErrors == Msg("too many errors", Null, Null, "")

\* a row of the sheet with every cell empty
EmptyRow ==
    [product_id |-> Null, description |-> Null, list_price |-> NullPrice,
     currency |-> NullText, vendor |-> Null, product_group |-> Null,
     eol_note_url |-> Null, eol_friendly_name |-> Null,
     internal_product_id |-> Null, dates |-> NullDateCells]

\* __wb_data_frame__ = None
NoFrame == [loaded |-> FALSE, columns |-> {}, rows |-> <<>>]

\* history of a loop iteration, before any iteration
NoLast ==
    [entry |-> 0, run |-> 0, row |-> EmptyRow, update_only |-> FALSE,
     lookup_error |-> FALSE, skip |-> FALSE, created |-> FALSE,
     faulty |-> FALSE, changed |-> FALSE, save_error |-> FALSE,
     saved |-> FALSE, raised |-> FALSE, stopped |-> FALSE,
     target |-> Null, row_key |-> Null, appended |-> 0,
     db_before |-> [i \in ProductIds |-> Absent(i)],
     groups_before |-> {},
     revisions_before |-> [i \in ProductIds |-> 0],
     valid_before |-> 0, invalid_before |-> 0]

\* BaseExcelImporter.verify_file, the checks it makes
VerifyOk ==
    LET keys == {Lower(x) : x \in workbook.columns}
    IN  /\ sheetname \in workbook.sheet_names
        /\ Cardinality(required_keys \cap keys) = Cardinality(required_keys)

\* verify_file returns: the file is marked valid
verify_file ==
    /\ pc = "idle"
    /\ VerifyOk
    /\ valid_file' = TRUE
    /\ last_call' = "verify_file returned"
    /\ UNCHANGED <<migration_vars, workbook, wb_data_frame, date_order,
                   valid_imported_products, invalid_products,
                   import_result_messages, update_only, current_entry, p, pc,
                   product_db, group_db, revisions, save_failures,
                   lookup_errors, runs, last, run_log>>

\* verify_file raises InvalidImportFormatException: valid_file stays False
verify_file_raises ==
    /\ pc = "idle"
    /\ ~VerifyOk
    /\ valid_file' = FALSE
    /\ last_call' = "verify_file raised"
    /\ UNCHANGED <<migration_vars, workbook, wb_data_frame, date_order,
                   valid_imported_products, invalid_products,
                   import_result_messages, update_only, current_entry, p, pc,
                   product_db, group_db, revisions, save_failures,
                   lookup_errors, runs, last, run_log>>

\* whether _create_data_frame can build the frame: the sheet is there
\* (workbook.parse) and so are the columns dropna is told to look at
FrameOk ==
    /\ sheetname \in workbook.sheet_names
    /\ drop_na_columns \subseteq NormalizedColumns(workbook.columns)

\* BaseExcelImporter._create_data_frame
CreateDataFrame ==
    [loaded |-> TRUE,
     columns |-> NormalizedColumns(workbook.columns),
     rows |-> DropNa(workbook.rows)]

\* the entry of run_log for the run that ends with these results
RunResult(mode, valid, invalid, messages, raised) ==
    [update_only |-> mode, valid |-> valid, invalid |-> invalid,
     messages |-> messages, raised |-> raised]

\* import_to_database up to the row loop: the frame is built on the first
\* call, the counters and the messages are reset. With no row the call
\* returns at once.
import_to_database(mode) ==
    /\ pc = "idle"
    /\ runs < MaxRuns
    /\ wb_data_frame.loaded \/ FrameOk
    /\ LET frame == IF wb_data_frame.loaded THEN wb_data_frame
                    ELSE CreateDataFrame
       IN  /\ wb_data_frame' = frame
           /\ IF Len(frame.rows) = 0
              THEN /\ pc' = "idle"
                   /\ last_call' = "import_to_database returned"
                   /\ run_log' = Append(run_log,
                                        RunResult(mode, 0, 0, <<>>, FALSE))
              ELSE /\ pc' = "loop"
                   /\ last_call' = "import_to_database running"
                   /\ run_log' = run_log
    /\ runs' = runs + 1
    /\ update_only' = mode
    /\ valid_imported_products' = 0
    /\ invalid_products' = 0
    /\ import_result_messages' = <<>>
    /\ current_entry' = 1
    /\ p' = Unbound
    /\ last' = [NoLast EXCEPT !.run = runs + 1]
    /\ UNCHANGED <<migration_vars, workbook, valid_file, date_order, product_db, group_db,
                   revisions, save_failures, lookup_errors>>

\* import_to_database raises in _create_data_frame, before line 167
import_to_database_raises ==
    /\ pc = "idle"
    /\ runs < MaxRuns
    /\ ~wb_data_frame.loaded
    /\ ~FrameOk
    /\ runs' = runs + 1
    /\ last_call' = "import_to_database raised"
    /\ UNCHANGED <<migration_vars, workbook, valid_file, wb_data_frame, date_order,
                   valid_imported_products, invalid_products,
                   import_result_messages, update_only, current_entry, p, pc,
                   product_db, group_db, revisions, save_failures,
                   lookup_errors, last, run_log>>

\* Lines 363-403 for the state d of the row after the try block and the date
\* columns: the save and the messages. db1 is the product table after the
\* lookup. What the iteration leaves behind: the object, the groups, the
\* product table, the revisions, the counters, the messages appended, and
\* whether the loop breaks.
SaveAndReport(d, pid, created, db1, revs, valid0, invalid0, save_error) ==
    LET \* lines 363-392
        failed == d.changed /\ save_error
        saved  == d.changed /\ ~save_error
        result == IF d.changed
                  THEN IF save_error THEN <<>>
                       ELSE <<Msg(IF created THEN "created" ELSE "updated",
                                  d.p.product_id, Null, "")>>
                  ELSE <<Msg("unchanged", d.p.product_id, Null, "")>>
        faulty_entry == d.faulty \/ failed
        msg    == IF failed
                  THEN Msg("cannot save", pid, Null, "save raised")
                  ELSE Msg("cannot set", pid, d.row_key, d.reason)
        \* lines 394-403
        invalid == IF faulty_entry THEN invalid0 + 1 ELSE invalid0
        stopped == faulty_entry /\ BudgetExceeded(invalid)
    IN  [p |-> d.p,
         groups |-> d.groups,
         db |-> IF saved
                THEN [db1 EXCEPT ![d.p.product_id] = Stored(d.p)]
                ELSE db1,
         revisions |-> IF saved
                       THEN [revs EXCEPT ![d.p.product_id] = @ + 1]
                       ELSE revs,
         changed |-> d.changed,
         saved |-> saved,
         faulty_entry |-> faulty_entry,
         row_key |-> msg.key,
         valid |-> IF saved THEN valid0 + 1 ELSE valid0,
         invalid |-> invalid,
         stopped |-> stopped,
         appended |-> result
                      \o (IF faulty_entry THEN <<msg>> ELSE <<>>)
                      \o (IF stopped THEN <<TooManyErrors>> ELSE <<>>)]

\* Lines 203-403 for a row that is not skipped, on the object p1: the try
\* block (lines 203-336), the date columns (lines 338-361), the save and the
\* messages (lines 363-403).
ProcessEntry(row, cols, order, created, p1, db1, groups, revs, valid0, invalid0, save_error) ==
    The({SaveAndReport(d, row.product_id, created, db1, revs, valid0,
                       invalid0, save_error) :
            d \in ImportDates({ApplyColumns(p1, row, cols, created, groups)},
                              row, cols, order, 1)})

\* the history record of the iteration at current_entry
History(row, lookup_error, skip, created) ==
    [NoLast EXCEPT !.entry = current_entry, !.run = runs, !.row = row,
                   !.update_only = update_only,
                   !.lookup_error = lookup_error, !.skip = skip,
                   !.created = created,
                   !.db_before = product_db, !.groups_before = group_db,
                   !.revisions_before = revisions,
                   !.valid_before = valid_imported_products,
                   !.invalid_before = invalid_products]

\* the call returns (or raises) with these results
Return(valid, invalid, messages, raised) ==
    /\ pc' = "idle"
    /\ last_call' = IF raised THEN "import_to_database raised"
                    ELSE "import_to_database returned"
    /\ run_log' = Append(run_log,
                         RunResult(update_only, valid, invalid, messages,
                                   raised))

\* the loop goes on with the next row
Continue ==
    /\ pc' = "loop"
    /\ UNCHANGED <<last_call, run_log>>

\* the state after an iteration that was not skipped and whose outcome is o
Commit(o, hist, save_error) ==
    /\ p' = o.p
    /\ group_db' = o.groups
    /\ product_db' = o.db
    /\ revisions' = o.revisions
    /\ valid_imported_products' = o.valid
    /\ invalid_products' = o.invalid
    /\ import_result_messages' = import_result_messages \o o.appended
    /\ current_entry' = IF o.stopped THEN current_entry ELSE current_entry + 1
    /\ IF o.stopped \/ current_entry = Len(wb_data_frame.rows)
       THEN Return(o.valid, o.invalid, import_result_messages \o o.appended,
                   FALSE)
       ELSE Continue
    /\ last' = [hist EXCEPT !.faulty = o.faulty_entry,
                            !.changed = o.changed,
                            !.save_error = save_error,
                            !.saved = o.saved,
                            !.stopped = o.stopped,
                            !.target = o.p.product_id,
                            !.row_key = o.row_key,
                            !.appended = Len(o.appended)]

\* One iteration of "for index, row in self.__wb_data_frame__.iterrows()",
\* lines 180-405, for the row at current_entry. lookup_error: Product.objects
\* .get raises something else than DoesNotExist; save_error: the transaction
\* of p.save() raises and is rolled back.
Iteration(lookup_error, save_error) ==
    LET row     == wb_data_frame.rows[current_entry]
        pid     == row.product_id
        exists  == product_db[pid].present
        \* lines 185-200
        skip    == update_only /\ ~lookup_error /\ ~exists
        created == ~update_only /\ ~exists
        db1     == IF created
                   THEN [product_db EXCEPT ![pid] = NewProduct(pid)]
                   ELSE product_db
        p1      == IF update_only
                   THEN IF lookup_error \/ ~exists THEN p ELSE product_db[pid]
                   ELSE db1[pid]
        \* p is read before it was ever assigned: NameError leaves the call
        raised  == ~skip /\ ~p1.present
        hist    == History(row, lookup_error, skip, created)
    IN  /\ pc = "loop"
        /\ current_entry <= Len(wb_data_frame.rows)
        /\ lookup_error => update_only /\ lookup_errors < MaxLookupErrors
        /\ save_error => ~skip /\ ~raised /\ save_failures < MaxSaveFailures
        /\ lookup_errors' = IF lookup_error THEN lookup_errors + 1
                            ELSE lookup_errors
        /\ save_failures' = IF save_error THEN save_failures + 1
                            ELSE save_failures
        /\ IF skip
           THEN \* line 191, then line 405
                /\ current_entry' = current_entry + 1
                /\ IF current_entry = Len(wb_data_frame.rows)
                   THEN Return(valid_imported_products, invalid_products,
                               import_result_messages, FALSE)
                   ELSE Continue
                /\ last' = hist
                /\ UNCHANGED <<p, product_db, group_db, revisions,
                               valid_imported_products, invalid_products,
                               import_result_messages>>
           ELSE IF raised
           THEN \* NameError: the exception leaves import_to_database
                /\ Return(valid_imported_products, invalid_products,
                          import_result_messages, TRUE)
                /\ last' = [hist EXCEPT !.raised = TRUE]
                /\ UNCHANGED <<p, product_db, group_db, revisions,
                               valid_imported_products, invalid_products,
                               import_result_messages, current_entry>>
           ELSE \E o \in {ProcessEntry(row, wb_data_frame.columns, date_order,
                                       created, p1, db1, group_db, revisions,
                                       valid_imported_products,
                                       invalid_products, save_error)} :
                    \* a save can only fail where the row saves
                    /\ save_error => o.changed
                    /\ Commit(o, hist, save_error)
        /\ UNCHANGED <<migration_vars, workbook, valid_file, wb_data_frame,
                       date_order, update_only, runs>>

\* an iteration in which the datastore answers every call
ProcessRow ==
    /\ pc = "loop"
    /\ Iteration(FALSE, FALSE)

\* an iteration of an update-only run whose product lookup raises an
\* unexpected exception (lines 193-195)
ProcessRowLookupError ==
    /\ update_only
    /\ Iteration(TRUE, FALSE)

\* an iteration whose transactional save raises (lines 390-392)
ProcessRowSaveError ==
    /\ save_failures < MaxSaveFailures
    /\ \E lookup_error \in BOOLEAN : Iteration(lookup_error, TRUE)

-----------------------------------------------------------------------------
(* ProductMigrationsExcelImporter.import_to_database: the tables             *)

\* the names of migration sources
SourceNames == {"S1", "S2"}

\* "migration_source.preference = 10"
CreatedPreference == 10

\* no row of table ProductMigrationSource for a name
NoSource == [present |-> FALSE, preference |-> 0]

\* the ProductMigrationSource that get_or_create creates and lines 460-461
\* save
CreatedSource == [present |-> TRUE, preference |-> CreatedPreference]

\* the ProductMigrationOption that get_or_create creates; saves counts the
\* calls of pmo.save() that were committed
NewOption(pid, name) ==
    [product |-> pid, migration_source |-> name, comment |-> Null,
     replacement_product_id |-> Null, migration_product_info_url |-> Null,
     saves |-> 0]

\* ProductMigrationOption.objects.filter(product=pid, migration_source=name)
OptionsOf(options, pid, name) ==
    {o \in options : o.product = pid /\ o.migration_source = name}

\* an entry of the messages of the migration import. kind is "source
\* created" | "create" | "update" | "cannot save" | "not found"
MigrationMsg(kind, pid, name) == [kind |-> kind, pid |-> pid, name |-> name]

\* Product.objects.get(product_id=...) returns
ProductExists(products, pid) == pid \in ProductIds /\ products[pid].present

-----------------------------------------------------------------------------
(* ProductMigrationsExcelImporter.import_to_database: one row                *)

\* lines 455-463: get_or_create of the migration source
ResolveSource(sources, name) ==
    IF sources[name].present
    THEN [sources |-> sources, created |-> FALSE]
    ELSE [sources |-> [sources EXCEPT ![name] = CreatedSource],
          created |-> TRUE]

\* lines 467-483: the optional columns
SetOptionFields(pmo, row, cols) ==
    [pmo EXCEPT
        !.comment = IF "comment" \in cols /\ ~IsNull(row.comment)
                    THEN row.comment ELSE @,
        !.replacement_product_id =
            IF "replacement product id" \in cols
               /\ ~IsNull(row.replacement_product_id)
            THEN row.replacement_product_id ELSE @,
        !.migration_product_info_url =
            IF "migration product info url" \in cols
               /\ ~IsNull(row.migration_product_info_url)
            THEN row.migration_product_info_url ELSE @]

\* variant of SavedOption: the option is saved only when a column changed it
SavedOptionIfChanged(pmo, row, cols) ==
    IF SetOptionFields(pmo, row, cols) = pmo THEN pmo
    ELSE [SetOptionFields(pmo, row, cols) EXCEPT !.saves = @ + 1]

\* lines 467-485: the option after the columns are applied and pmo.save()
SavedOption(pmo, row, cols) ==
    [SetOptionFields(pmo, row, cols) EXCEPT !.saves = @ + 1]

\* lines 465-485: get_or_create of the option, the columns and the save
SaveOption(options, pid, name, row, cols) ==
    LET found   == OptionsOf(options, pid, name)
        created == found = {}
        pmo     == IF created THEN NewOption(pid, name) ELSE The(found)
    IN  [options |-> (options \ {pmo}) \cup {SavedOption(pmo, row, cols)},
         created |-> created]

\* variant of NotFound: the migration source of the row is created although
\* the product is not found
NotFoundAfterSource(row, sources, options) ==
    [sources |-> ResolveSource(sources, row.migration_source).sources,
     options |-> options,
     appended |-> <<MigrationMsg("not found", row.product_id, Null)>>,
     found |-> FALSE, source_created |-> FALSE, option_created |-> FALSE]

\* lines 454 and 503-504: Product.DoesNotExist ends the transaction before
\* anything is written
NotFound(row, sources, options) ==
    [sources |-> sources,
     options |-> options,
     appended |-> <<MigrationMsg("not found", row.product_id, Null)>>,
     found |-> FALSE, source_created |-> FALSE, option_created |-> FALSE]

\* lines 450-504 for a row: the tables after it and the messages it appends.
\* A ValidationError raised by pmo.save() rolls the transaction back; the
\* notice of line 462 is appended before and stays.
MigrateEntry(row, cols, products, sources, options, validation_error) ==
    IF ~ProductExists(products, row.product_id)
    THEN NotFound(row, sources, options)
    ELSE LET src    == ResolveSource(sources, row.migration_source)
             opt    == SaveOption(options, row.product_id,
                                  row.migration_source, row, cols)
             notice == IF src.created
                       THEN <<MigrationMsg("source created", Null,
                                           row.migration_source)>>
                       ELSE <<>>
         IN  IF validation_error
             THEN [sources |-> sources,
                   options |-> options,
                   appended |-> notice \o
                       <<MigrationMsg("cannot save", row.product_id, Null)>>,
                   found |-> TRUE, source_created |-> src.created,
                   option_created |-> opt.created]
             ELSE [sources |-> src.sources,
                   options |-> opt.options,
                   appended |-> notice \o
                       <<MigrationMsg(IF opt.created THEN "create"
                                      ELSE "update",
                                      row.product_id, row.migration_source)>>,
                   found |-> TRUE, source_created |-> src.created,
                   option_created |-> opt.created]

-----------------------------------------------------------------------------
(* ProductMigrationsExcelImporter.import_to_database: the call               *)

\* a row of the sheet "product_migrations" with every cell empty
EmptyMigrationRow ==
    [product_id |-> Null, migration_source |-> Null, comment |-> Null,
     replacement_product_id |-> Null, migration_product_info_url |-> Null]

\* history of a loop iteration of the migration import, before any
NoMigrationLast ==
    [entry |-> 0, run |-> 0, row |-> EmptyMigrationRow, skipped |-> FALSE,
     found |-> FALSE, validation_error |-> FALSE, source_created |-> FALSE,
     option_created |-> FALSE, appended |-> 0,
     sources_before |-> [n \in SourceNames |-> NoSource],
     options_before |-> {},
     sources_at_start |-> [n \in SourceNames |-> NoSource]]

\* _create_data_frame with drop_na_columns = ["product id", "migration
\* source"]; the header of the sheet is written in normalized form
MigrationDropNa(rows) ==
    SelectSeq(rows, LAMBDA r : ~IsNull(r.product_id)
                               /\ ~IsNull(r.migration_source))

\* lines 426-441: the call up to the first row
migrations_import_to_database ==
    /\ migration_pc = "idle"
    /\ migration_runs < MaxRuns
    /\ migration_runs' = migration_runs + 1
    /\ \E rows \in {IF migration_frame.loaded THEN migration_frame.rows
                    ELSE MigrationDropNa(migration_workbook.rows)} :
        /\ migration_frame' = [loaded |-> TRUE,
                               columns |-> migration_workbook.columns,
                               rows |-> rows]
        /\ migration_pc' = IF Len(rows) = 0 THEN "idle" ELSE "loop"
    /\ migration_messages' = <<>>
    /\ migration_entry' = 1
    /\ migration_last' = [NoMigrationLast EXCEPT
                             !.run = migration_runs + 1,
                             !.sources_before = source_db,
                             !.options_before = option_db,
                             !.sources_at_start = source_db]
    /\ UNCHANGED <<product_vars, migration_workbook, source_db, option_db,
                   validation_failures>>

\* lines 441-504: one iteration of the row loop; validation_error says
\* whether pmo.save() raises ValidationError
MigrationIteration(validation_error) ==
    /\ migration_pc = "loop"
    /\ \E row \in {migration_frame.rows[migration_entry]} :
        \E hist \in {[migration_last EXCEPT
                        !.entry = migration_entry, !.row = row,
                        !.validation_error = validation_error,
                        !.sources_before = source_db,
                        !.options_before = option_db]} :
          IF row.product_id = ""
          THEN \* lines 447-448
               /\ ~validation_error
               /\ migration_last' = [hist EXCEPT !.skipped = TRUE,
                                                 !.found = FALSE,
                                                 !.source_created = FALSE,
                                                 !.option_created = FALSE,
                                                 !.appended = 0]
               /\ UNCHANGED <<migration_messages, source_db, option_db,
                              validation_failures>>
          ELSE \E o \in {MigrateEntry(row, migration_frame.columns,
                                      product_db, source_db, option_db,
                                      validation_error)} :
               /\ validation_error => o.found
               /\ source_db' = o.sources
               /\ option_db' = o.options
               /\ migration_messages' = migration_messages \o o.appended
               /\ validation_failures' =
                    IF validation_error THEN validation_failures + 1
                    ELSE validation_failures
               /\ migration_last' =
                    [hist EXCEPT !.skipped = FALSE, !.found = o.found,
                                 !.source_created = o.source_created,
                                 !.option_created = o.option_created,
                                 !.appended = Len(o.appended)]
    /\ migration_entry' = migration_entry + 1
    /\ migration_pc' = IF migration_entry < Len(migration_frame.rows)
                       THEN "loop" ELSE "idle"
    /\ UNCHANGED <<product_vars, migration_workbook, migration_frame,
                   migration_runs>>

\* an iteration in which every save passes validation
MigrateRow ==
    /\ migration_pc = "loop"
    /\ MigrationIteration(FALSE)

\* an iteration whose pmo.save() raises ValidationError (lines 499-501)
MigrateRowValidationError ==
    /\ validation_failures < MaxValidationFailures
    /\ MigrationIteration(TRUE)

\* the state after ProductMigrationsExcelImporter(path) for the workbook wb
\* and the tables sources and options
InitMigrationWith(wb, sources, options) ==
    /\ migration_workbook = wb
    /\ migration_frame = NoFrame
    /\ migration_messages = <<>>
    /\ migration_entry = 1
    /\ migration_pc = "idle"
    /\ source_db = sources
    /\ option_db = options
    /\ validation_failures = 0
    /\ migration_runs = 0
    /\ migration_last = NoMigrationLast

\* no migration workbook, no migration source, no migration option
NoMigrations ==
    InitMigrationWith([columns |-> {}, rows |-> <<>>],
                      [n \in SourceNames |-> NoSource], {})

-----------------------------------------------------------------------------
(* Inputs *)

\* the texts of the "list price" and "currency" cells
T_10_5 == <<"1", "0", ".", "5">>

T_10_1 == <<"1", "0", ".", "1">>

T_10_5_EUR == <<"1", "0", ".", "5", " ", "E", "U", "R">>

T_10_1_EUR == <<"1", "0", ".", "1", " ", "E", "U", "R">>

T_10_5_eur == <<"1", "0", ".", "5", " ", "e", "u", "r">>

T_10_5_XXX == <<"1", "0", ".", "5", " ", "X", "X", "X">>

T_10_5_EUR_spaced == <<"1", "0", " ", "5", " ", "E", "U", "R">>

T_abc == <<"a", "b", "c">>

T_abc_EUR == <<"a", "b", "c", " ", "E", "U", "R">>

T_xxx == <<"x", "x", "x">>

T_eur == <<"e", "u", "r">>

\* a row of the sheet "products" with the columns the sheet requires and the
\* optional columns "currency" and "product group"
Row(pid, description, list_price, currency, vendor, product_group) ==
    [EmptyRow EXCEPT !.product_id = pid, !.description = description,
                     !.list_price = list_price, !.currency = currency,
                     !.vendor = vendor, !.product_group = product_group]

\* every column the importer knows, written as the importer expects it
AllColumns ==
    {Col(c) : c \in {"product id", "description", "list price", "currency",
                     "vendor", "product group", "eol note url",
                     "eol note url (friendly name)", "internal product id"}
                    \cup DateCols}

\* the order in which data_map is written
WrittenOrder == [i \in 1..Len(data_map) |-> i]

\* the catalog before the import: product B of vendor Acme at 10.10 EUR,
\* no product A
InitialProducts ==
    [i \in ProductIds |->
        IF i = "B"
        THEN [NewProduct("B") EXCEPT !.description = "d1",
                                     !.list_price = DecPrice(1010),
                                     !.currency = EUR,
                                     !.vendor = 1]
        ELSE Absent(i)]

\* the rows of the workbooks of Spec
MainRows ==
    { Row("A", "d1", StrPrice(T_10_5_EUR), NullText, "Acme", Null),
      Row("A", "d1", StrPrice(T_10_5_XXX), NullText, "Acme", Null),
      Row("A", "d1", StrPrice(T_10_5), T_xxx, "Acme", Null),
      Row("A", "d1", StrPrice(T_10_5), NullText, Null, Null),
      Row("A", Null, StrPrice(T_10_5_XXX), NullText, Null, Null),
      Row("A", "d2", StrPrice(T_10_5_eur), NullText, "Ghost", "g1"),
      Row("A", "d1", StrPrice(T_10_5_EUR), NullText, "Bolt", "g1"),
      Row("B", "d1", StrPrice(T_10_1_EUR), NullText, "Acme", Null),
      Row("B", "d1", NullPrice, NullText, "Acme", Null),
      Row("B", Null, StrPrice(T_10_1), NullText, Null, Null),
      Row("B", "d2", StrPrice(T_10_5_XXX), NullText, "Acme", Null),
      Row("B", "d1", NullPrice, T_xxx, "Acme", "g1") }

\* every sequence of at most n rows out of the set rows
SeqsUpTo(rows, n) == UNION {[1..k -> rows] : k \in 0..n}

\* the workbooks of Spec: every sheet of at most MaxRows rows under the full
\* header, a workbook without the sheet, and a sheet without the column
\* "vendor"
MainWorkbooks ==
    {[sheet_names |-> {sheetname}, columns |-> AllColumns, rows |-> rs] :
        rs \in SeqsUpTo(MainRows, MaxRows)}
    \cup
    {[sheet_names |-> {"other"}, columns |-> AllColumns, rows |-> <<>>]}
    \cup
    {[sheet_names |-> {sheetname},
      columns |-> AllColumns \ {Col("vendor")},
      rows |-> <<r>>] :
        r \in {Row("A", "d1", StrPrice(T_10_5_EUR), NullText, Null, Null)}}

\* the state after ProductsExcelImporter(path) for the workbook wb
InitProductsWith(wb, db, order) ==
    /\ workbook = wb
    /\ valid_file = FALSE
    /\ wb_data_frame = NoFrame
    /\ date_order = order
    /\ valid_imported_products = 0
    /\ invalid_products = 0
    /\ import_result_messages = <<>>
    /\ update_only = FALSE
    /\ current_entry = 1
    /\ p = Unbound
    /\ pc = "idle"
    /\ product_db = db
    /\ group_db = {}
    /\ revisions = [i \in ProductIds |-> 0]
    /\ save_failures = 0
    /\ lookup_errors = 0
    /\ runs = 0
    /\ last_call = "constructed"
    /\ last = NoLast
    /\ run_log = <<>>

\* a product importer on the workbook wb, and no migration import
InitWith(wb, db, order) ==
    /\ InitProductsWith(wb, db, order)
    /\ NoMigrations

-----------------------------------------------------------------------------
(* Spec: an importer on one workbook of at most MaxRows rows, used for up to *)
(* MaxRuns imports in either mode, verified or not.                          *)

Init == \E wb \in MainWorkbooks : InitWith(wb, InitialProducts, WrittenOrder)

Next ==
    \/ verify_file
    \/ verify_file_raises
    \/ \E mode \in BOOLEAN : import_to_database(mode)
    \/ import_to_database_raises
    \/ ProcessRow
    \/ ProcessRowLookupError
    \/ ProcessRowSaveError

Spec == Init /\ [][Next]_vars

-----------------------------------------------------------------------------
(* SpecCreate: one import in create-or-update mode of a workbook whose rows  *)
(* differ in product, price, vendor and product group, into the empty        *)
(* catalog or the catalog with product B.                                    *)

NoProducts == [i \in ProductIds |-> Absent(i)]

CreateRows ==
    { Row(pid, "d1", StrPrice(price), NullText, vendor, group) :
        pid \in ProductIds,
        price \in {T_10_5_EUR, T_10_5_XXX},
        vendor \in {Null, "Acme"},
        group \in {Null, "g1"} }

CreateWorkbooks ==
    {[sheet_names |-> {sheetname}, columns |-> AllColumns, rows |-> rs] :
        rs \in SeqsUpTo(CreateRows, MaxRows)}

InitCreate ==
    \E wb \in CreateWorkbooks, db \in {NoProducts, InitialProducts} :
        InitWith(wb, db, WrittenOrder)

NextCreate ==
    \/ runs = 0 /\ import_to_database(FALSE)
    \/ ProcessRow
    \/ ProcessRowSaveError

SpecCreate == InitCreate /\ [][NextCreate]_vars

-----------------------------------------------------------------------------
(* SpecBudget: imports of long workbooks of faulty rows, with one row at any *)
(* position replaced by another kind of row.                                 *)

\* rows in a workbook of SpecBudget
MaxBudgetRows == 33

\* a faulty row of the existing product B that changes nothing
FaultyRow == Row("B", "d1", StrPrice(T_10_5_XXX), NullText, "Acme", Null)

\* a faulty row that creates product A
FaultyCreatingRow == Row("A", "d1", StrPrice(T_10_5_XXX), NullText, "Acme", Null)

\* a row of product B without a fault
GoodRow == Row("B", "d2", NullPrice, NullText, "Acme", Null)

BudgetLengths == (ErrorBudget - 1)..MaxBudgetRows

BudgetSheets ==
    { [i \in 1..n |-> IF i = at THEN other ELSE FaultyRow] :
        n \in BudgetLengths, at \in 0..MaxBudgetRows,
        other \in {FaultyCreatingRow, GoodRow} }

BudgetWorkbooks ==
    {[sheet_names |-> {sheetname}, columns |-> AllColumns, rows |-> rs] :
        rs \in BudgetSheets}

InitBudget == \E wb \in BudgetWorkbooks :
                  InitWith(wb, InitialProducts, WrittenOrder)

NextBudget ==
    \/ \E mode \in BOOLEAN : import_to_database(mode)
    \/ ProcessRow

SpecBudget == InitBudget /\ [][NextBudget]_vars

-----------------------------------------------------------------------------
(* Properties. They are read off the history of the last loop iteration:    *)
(* last holds the row, what the iteration did, and the datastore and the    *)
(* counters as they were before it.                                         *)

\* the last iteration processed its row (it neither skipped it nor raised)
Processed == last.entry > 0 /\ ~last.skip /\ ~last.raised

\* the product id of the row of the last iteration
LastPid == last.row.product_id

\* the record of that product before the iteration
RecordBefore == last.db_before[LastPid]

\* the messages the last iteration appended
LastAppended ==
    SubSeq(import_result_messages,
           Len(import_result_messages) - last.appended + 1,
           Len(import_result_messages))

\* "list price" is "<number> <code>" with a code that is no known currency
UnknownCurrencyToken(row) ==
    /\ row.list_price.type = "str"
    /\ Len(Split(row.list_price.text)) = 2
    /\ Upper(Split(row.list_price.text)[2]) \notin CURRENCY_CHOICES

\* "currency" holds a value that is no known currency
UnknownCurrencyColumn(row) ==
    /\ ~IsNullText(row.currency)
    /\ Upper(row.currency) \notin CURRENCY_CHOICES

\* C1 (as claimed): a row with an unknown currency in "list price" or in
\* "currency" is rejected, invalid_products is incremented, and the product
\* table and the revision log are as they were before the row: the product
\* is neither created nor saved.
C1_UnknownCurrencyNoWrite ==
    (/\ Processed
     /\ ~last.lookup_error
     /\ UnknownCurrencyToken(last.row) \/ UnknownCurrencyColumn(last.row))
    => /\ last.faulty
       /\ invalid_products = last.invalid_before + 1
       /\ product_db = last.db_before
       /\ revisions = last.revisions_before

\* the currency a row states: the column "currency", else the code in
\* "list price", else the default of the model
StatedCurrency(row) ==
    IF ~IsNullText(row.currency) THEN Upper(row.currency)
    ELSE IF Len(Split(row.list_price.text)) = 2
    THEN Upper(Split(row.list_price.text)[2])
    ELSE USD

\* "list price" is empty, or states the price and the currency of rec
SamePrice(row, rec) ==
    \/ row.list_price.type = "null"
    \/ /\ row.list_price.type = "str"
       /\ Len(Split(row.list_price.text)) \in {1, 2}
       /\ ParseFloat(Split(row.list_price.text)[1]).ok
       /\ rec.list_price.kind = "dec"
       /\ ParseFloat(Split(row.list_price.text)[1]).cents = rec.list_price.cents
       /\ StatedCurrency(row) = rec.currency

\* every column of the row is empty or states the value the record rec has
NothingToChange(row, rec) ==
    /\ rec.present
    /\ IsNull(row.description) \/ row.description = rec.description
    /\ SamePrice(row, rec)
    /\ IsNullText(row.currency) \/ Upper(row.currency) = rec.currency
    /\ IsNull(row.vendor) \/ row.vendor = VendorName(rec.vendor)
    /\ IsNull(row.product_group) \/ row.product_group = rec.product_group.name
    /\ IsNull(row.eol_note_url) \/ row.eol_note_url = rec.eol_reference_url
    /\ IsNull(row.eol_friendly_name)
         \/ row.eol_friendly_name = rec.eol_reference_number
    /\ IsNull(row.internal_product_id)
         \/ row.internal_product_id = rec.internal_product_id
    /\ \A i \in 1..Len(data_map) :
         LET cell == row.dates[data_map[i].col]
         IN  \/ cell.type = "null"
             \/ /\ cell.type = "timestamp"
                /\ Date(cell.day) = rec.dates[data_map[i].attr]

\* C2 (as claimed): a row of an existing product whose columns are all empty
\* or equal to the record is not saved, gets no revision, does not count as
\* imported and is answered by the one message "no changes ... required";
\* and a save happens only for a row that created the record or changed a
\* field of it. A bare number in "list price" is taken to state the default
\* currency USD, the reading under which the claim says least.
C2_NoChangeNoSave ==
    /\ (/\ Processed
        /\ ~last.lookup_error
        /\ NothingToChange(last.row, RecordBefore))
       => /\ ~last.saved
          /\ product_db = last.db_before
          /\ revisions = last.revisions_before
          /\ valid_imported_products = last.valid_before
          /\ LastAppended = <<Msg("unchanged", LastPid, Null, "")>>
    /\ (Processed /\ ~last.lookup_error /\ last.saved)
       => \/ last.created
          \/ product_db[LastPid] # RecordBefore

\* the product ids of the rows are pairwise different
DistinctProductIds(rows) ==
    \A i, j \in 1..Len(rows) : rows[i].product_id = rows[j].product_id => i = j

\* the entries of msgs of one of the kinds
OfKind(msgs, kinds) == {i \in 1..Len(msgs) : msgs[i].kind \in kinds}

\* C3 (as claimed): the first two imports of a workbook, both in
\* create-or-update mode and with no failing save: the second
\* imports nothing, appends "unchanged" for every row that is not faulty
\* and counts as many invalid rows as the first. Stated for the workbooks
\* whose rows have different product ids, where the claim says least.
C3_SecondRunUnchanged ==
    (/\ Len(run_log) >= 2
     /\ ~run_log[1].update_only /\ ~run_log[2].update_only
     /\ ~run_log[1].raised /\ ~run_log[2].raised
     /\ save_failures = 0
     /\ DistinctProductIds(wb_data_frame.rows))
    => /\ run_log[2].valid = 0
       /\ run_log[2].invalid = run_log[1].invalid
       /\ OfKind(run_log[2].messages, {"created", "updated"}) = {}
       /\ Cardinality(OfKind(run_log[2].messages, {"unchanged"}))
            >= Len(wb_data_frame.rows) - run_log[2].invalid

\* the positions of the "too many errors" message
TerminalMessages == OfKind(import_result_messages, {"too many errors"})

\* C4: invalid_products never passes 31; the "too many errors" message is
\* there exactly when invalid_products is 31, once, as the last message, and
\* the call has then returned from the iteration that appended it; a call
\* that returns with 30 or fewer invalid rows has processed every row and
\* appended no such message.
C4_ErrorBudget ==
    /\ invalid_products <= 31
    /\ Cardinality(TerminalMessages) <= 1
    /\ (TerminalMessages # {}) <=> (invalid_products = 31)
    /\ TerminalMessages # {}
         => /\ TerminalMessages = {Len(import_result_messages)}
            /\ pc = "idle"
            /\ last.stopped
            /\ current_entry = last.entry
    /\ (/\ pc = "idle"
        /\ last_call = "import_to_database returned"
        /\ invalid_products <= 30)
         => /\ TerminalMessages = {}
            /\ current_entry = Len(wb_data_frame.rows) + 1

\* C4 witness: the import stopped at 31 invalid rows with rows left unread
C4_Witness ==
    /\ invalid_products = 31
    /\ TerminalMessages # {}
    /\ pc = "idle"
    /\ current_entry < Len(wb_data_frame.rows)

\* C5 (as claimed): the row loop runs only on a file that verify_file
\* marked valid.
C5_ValidatedOnly == pc = "loop" => valid_file

\* C6 (as claimed): in an update-only import, a row whose product id is not
\* in the product table leaves the product table, the groups, the revision
\* log, both counters and the messages as they were.
C6_UpdateOnlySkips ==
    (/\ last.entry > 0
     /\ last.update_only
     /\ ~RecordBefore.present)
    => /\ product_db = last.db_before
       /\ group_db = last.groups_before
       /\ revisions = last.revisions_before
       /\ valid_imported_products = last.valid_before
       /\ invalid_products = last.invalid_before
       /\ last.appended = 0

\* C7: after a row of a create-or-update import that created its product
\* and has no vendor, the product is in the product table with vendor 0,
\* the vendor "unassigned".
C7_UnassignedVendor ==
    (/\ Processed
     /\ ~last.update_only
     /\ last.created
     /\ IsNull(last.row.vendor))
    => /\ product_db[LastPid].present
       /\ product_db[LastPid].vendor = 0
       /\ VendorName(product_db[LastPid].vendor) = "unassigned"

\* C7 witness: such a row whose price was rejected, and one whose product
\* group was set
C7_Witness ==
    /\ Processed
    /\ ~last.update_only
    /\ last.created
    /\ IsNull(last.row.vendor)
    /\ last.faulty
    /\ product_db[LastPid].vendor = 0

\* C8 (as claimed): a processed row appends exactly one message, a skipped
\* row none, and the row that exhausts the error budget the terminal message
\* besides.
C8_OneMessagePerRow ==
    last.entry > 0
    => last.appended = (IF last.skip \/ last.raised THEN 0 ELSE 1)
                       + (IF last.stopped THEN 1 ELSE 0)

\* C9 (as claimed): no row counts both as imported and as invalid, and the
\* two counters together never exceed the number of rows read.
C9_CountersPartitionRows ==
    /\ valid_imported_products + invalid_products <= last.entry
    /\ last.entry > 0
         => (valid_imported_products - last.valid_before)
            + (invalid_products - last.invalid_before) <= 1

\* C10 (as claimed): a row whose save failed is faulty with the message
\* "cannot save data ... in database", does not count as imported, and
\* leaves no write: the product table, the groups and the revision log are
\* as before the row.
C10_FailedSaveLeavesNothing ==
    (Processed /\ last.save_error)
    => /\ last.faulty
       /\ OfKind(LastAppended, {"cannot save"}) # {}
       /\ valid_imported_products = last.valid_before
       /\ product_db = last.db_before
       /\ group_db = last.groups_before
       /\ revisions = last.revisions_before

-----------------------------------------------------------------------------
(* SpecDates: imports of rows whose lifecycle date cells are empty, a        *)
(* timestamp or a value of another type, for a product with and without a    *)
(* stored date.                                                              *)

\* a row of vendor Acme with the cells sale and support in the columns
\* "end of sale date" and "last date of support"
DateRow(pid, sale, support) ==
    [Row(pid, "d1", NullPrice, NullText, "Acme", Null)
        EXCEPT !.dates["end of sale date"] = sale,
               !.dates["last date of support"] = support]

DateRows ==
    { DateRow(pid, sale, support) :
        pid \in ProductIds,
        sale \in {NullCell, TimestampCell(1), TimestampCell(2), OtherCell},
        support \in {NullCell, OtherCell} }

DateWorkbooks ==
    {[sheet_names |-> {sheetname}, columns |-> AllColumns, rows |-> rs] :
        rs \in SeqsUpTo(DateRows, MaxRows)}

\* the catalog with an end-of-sale date stored for product B
ProductsWithSaleDate ==
    [InitialProducts EXCEPT !["B"].dates["end_of_sale_date"] = Date(1)]

InitDates ==
    \E wb \in DateWorkbooks, db \in {InitialProducts, ProductsWithSaleDate} :
        InitWith(wb, db, WrittenOrder)

NextDates ==
    \/ \E mode \in BOOLEAN : import_to_database(mode)
    \/ ProcessRow

SpecDates == InitDates /\ [][NextDates]_vars

\* the date columns of the row whose cell is neither empty nor a timestamp
OtherTypedDateColumns(row) == {c \in DateCols : row.dates[c].type = "other"}

\* C11 (as claimed): a row with a value in a date column that is neither
\* empty nor a date/timestamp is rejected, whether or not the record has a
\* value for the attribute: the row is faulty, invalid_products is
\* incremented and a rejection message names such a column and the product
\* id of the row.
C11_NonDateRejected ==
    (Processed /\ OtherTypedDateColumns(last.row) # {})
    => /\ last.faulty
       /\ invalid_products = last.invalid_before + 1
       /\ \E i \in 1..Len(LastAppended) :
            /\ LastAppended[i].kind = "cannot set"
            /\ LastAppended[i].pid = LastPid
            /\ LastAppended[i].key \in OtherTypedDateColumns(last.row)

-----------------------------------------------------------------------------
(* SpecMigration: up to MaxRuns migration imports of a sheet of at most      *)
(* MaxRows rows, into a catalog with product B and without product A, with   *)
(* the migration source S1 and with or without an option of B for S1.        *)

MigrationRows ==
    { [EmptyMigrationRow EXCEPT !.product_id = pid,
                                !.migration_source = name,
                                !.comment = comment] :
        pid \in ProductIds, name \in SourceNames, comment \in {Null, "c1"} }
    \cup
    { [EmptyMigrationRow EXCEPT !.product_id = "",
                                !.migration_source = "S1"],
      [EmptyMigrationRow EXCEPT !.product_id = "B"] }

\* the columns of the sheet "product_migrations"
MigrationColumns ==
    {"product id", "migration source", "replacement product id", "comment",
     "migration product info url"}

\* the migration source S1, which has a preference of its own
InitialSources ==
    [n \in SourceNames |->
        IF n = "S1" THEN [present |-> TRUE, preference |-> 5] ELSE NoSource]

\* the option of product B for the source S1, saved once
InitialOption == [NewOption("B", "S1") EXCEPT !.comment = "c1", !.saves = 1]

InitMigration ==
    /\ InitProductsWith([sheet_names |-> {}, columns |-> {}, rows |-> <<>>],
                        InitialProducts, WrittenOrder)
    /\ \E rs \in SeqsUpTo(MigrationRows, MaxRows),
          cols \in {MigrationColumns, MigrationColumns \ {"comment"}},
          options \in {{}, {InitialOption}} :
            InitMigrationWith([columns |-> cols, rows |-> rs],
                              InitialSources, options)

NextMigration ==
    \/ migrations_import_to_database
    \/ MigrateRow
    \/ MigrateRowValidationError

SpecMigration == InitMigration /\ [][NextMigration]_vars

\* the last iteration of the migration import read a row with a product id
MigrationProcessed == migration_last.entry > 0 /\ ~migration_last.skipped

\* the messages the last iteration of the migration import appended
MigrationLastAppended ==
    SubSeq(migration_messages,
           Len(migration_messages) - migration_last.appended + 1,
           Len(migration_messages))

\* C12: a row of the migration import whose product is not in the product
\* table appends the one message "Product ... not found in database, skip
\* entry" for its product id, leaves the migration sources, the migration
\* options and the products as they were, and the loop goes on to the next
\* row.
C12_UnknownProductSkipped ==
    (/\ MigrationProcessed
     /\ ~ProductExists(product_db, migration_last.row.product_id))
    => /\ MigrationLastAppended =
            <<MigrationMsg("not found", migration_last.row.product_id, Null)>>
       /\ source_db = migration_last.sources_before
       /\ option_db = migration_last.options_before
       /\ product_db = InitialProducts
       /\ migration_entry = migration_last.entry + 1
       /\ migration_last.entry < Len(migration_frame.rows)
            => migration_pc = "loop"

\* C12 witness: a row was answered "not found" and a later row of the same
\* run created a migration option
C12_Witness ==
    \E i \in 1..Len(migration_messages) :
        /\ migration_messages[i].kind = "not found"
        /\ i < Len(migration_messages)
        /\ migration_messages[Len(migration_messages)].kind = "create"

\* the options of the product and the source of the last row, before the
\* row and now
OptionsBefore ==
    OptionsOf(migration_last.options_before,
              migration_last.row.product_id,
              migration_last.row.migration_source)

OptionsNow ==
    OptionsOf(option_db, migration_last.row.product_id,
              migration_last.row.migration_source)

\* the last row saved its option, created it if there was none, and
\* appended exactly one path message: "create" for a new option, "update"
\* for one that existed
OptionSavedAndReported ==
    /\ Cardinality(OptionsNow) = 1
    /\ \A o \in OptionsNow :
         /\ OptionsBefore = {} => o.saves = 1
         /\ \A b \in OptionsBefore : o.saves = b.saves + 1
    /\ Cardinality(OfKind(MigrationLastAppended, {"create", "update"})) = 1
    /\ \A i \in OfKind(MigrationLastAppended, {"create", "update"}) :
         MigrationLastAppended[i] =
             MigrationMsg(IF OptionsBefore = {} THEN "create" ELSE "update",
                          migration_last.row.product_id,
                          migration_last.row.migration_source)

\* there is at most one option for a product and a migration source
OneOptionPerPair ==
    \A pid \in ProductIds, name \in SourceNames :
        Cardinality(OptionsOf(option_db, pid, name)) <= 1

\* C13 (as claimed): every row of the migration import whose product exists
\* saves the option of (product, migration source), also when no field
\* differs, and appends exactly one path message, "create" or "update"; and
\* there is at most one option per pair.
C13_AlwaysSaved ==
    /\ (/\ MigrationProcessed
        /\ ProductExists(product_db, migration_last.row.product_id))
       => OptionSavedAndReported
    /\ OneOptionPerPair

\* C13 (amended): the same for every such row whose save raises no
\* ValidationError; a row whose save raises it leaves the options as they
\* were and appends the "cannot save" message and no path message.
C13_SavedUnlessInvalid ==
    /\ (/\ MigrationProcessed
        /\ ProductExists(product_db, migration_last.row.product_id)
        /\ ~migration_last.validation_error)
       => OptionSavedAndReported
    /\ (MigrationProcessed /\ migration_last.validation_error)
       => /\ option_db = migration_last.options_before
          /\ OfKind(MigrationLastAppended, {"create", "update"}) = {}
          /\ OfKind(MigrationLastAppended, {"cannot save"}) # {}
    /\ OneOptionPerPair

\* C13 witness: a row for an existing option that changes none of its
\* fields; the option was saved again and "update" reported
C13_Witness ==
    /\ MigrationProcessed
    /\ ~migration_last.validation_error
    /\ OptionsBefore # {}
    /\ \A b \in OptionsBefore :
         /\ SetOptionFields(b, migration_last.row, migration_frame.columns) = b
         /\ [b EXCEPT !.saves = @ + 1] \in option_db
    /\ OfKind(MigrationLastAppended, {"update"}) # {}

\* the migration import has returned from a run
MigrationRunDone == migration_pc = "idle" /\ migration_runs > 0

\* C14 (as claimed): after a run of the migration import, the messages hold
\* the notice "Product Migration Source ... was created with a preference of
\* 10" for a name exactly when the source of that name did not exist before
\* the run and exists now with preference 10, also when the save of the row
\* that created it raised a ValidationError; the sources that existed before
\* the run are as they were.
C14_NoticeIffCreated ==
    MigrationRunDone
    => \A name \in SourceNames :
         /\ (\E i \in OfKind(migration_messages, {"source created"}) :
                 migration_messages[i].name = name)
            <=> /\ ~migration_last.sources_at_start[name].present
                /\ source_db[name] = [present |-> TRUE, preference |-> 10]
         /\ migration_last.sources_at_start[name].present
            => source_db[name] = migration_last.sources_at_start[name]

-----------------------------------------------------------------------------
(* SpecPrice: one import, in either mode, of rows that differ in the text of *)
(* "list price" and in the column "currency", into the empty catalog or the  *)
(* catalog with product B; a save may fail.                                   *)

PriceRows ==
    { Row(pid, "d1", StrPrice(price), NullText, "Acme", Null) :
        pid \in ProductIds,
        price \in {T_10_5_EUR, T_10_5_eur, T_10_5_EUR_spaced, T_abc_EUR} }
    \cup
    { Row("B", "d2", StrPrice(T_abc), NullText, Null, Null),
      Row("B", "d1", StrPrice(T_10_5), NullText, "Acme", Null),
      Row("B", "d1", StrPrice(T_10_5), T_eur, "Acme", Null),
      Row("A", "d1", NullPrice, T_eur, "Acme", Null),
      Row("A", "d2", StrPrice(T_10_1_EUR), NullText, Null, Null) }

InitPrice ==
    \E rs \in SeqsUpTo(PriceRows, MaxRows),
       db \in {NoProducts, InitialProducts} :
        InitWith([sheet_names |-> {sheetname}, columns |-> AllColumns,
                  rows |-> rs], db, WrittenOrder)

NextPrice ==
    \/ \E mode \in BOOLEAN : runs = 0 /\ import_to_database(mode)
    \/ ProcessRow
    \/ ProcessRowSaveError

SpecPrice == InitPrice /\ [][NextPrice]_vars

\* the tokens of the "list price" text of the last row
PriceTokens == Split(last.row.list_price.text)

\* "list price" is "<number> <code>" with <code> a known currency, whatever
\* its case
PriceWithCurrency ==
    /\ last.row.list_price.type = "str"
    /\ Len(PriceTokens) = 2
    /\ ParseFloat(PriceTokens[1]).ok
    /\ Upper(PriceTokens[2]) \in {EUR, USD}

\* C15: a processed row whose save does not fail, with "list price" of the
\* form "<number> <code>", <code> a known currency in any case, no value in
\* "currency" and a vendor that is empty or exists: the product is in the
\* product table with that number as list price and the upper-cased code as
\* currency, and the first message of the row is "created" for a product it
\* created and "updated" or "unchanged" for one that existed, naming the
\* product id.
C15_PriceAndCurrencyStored ==
    (/\ Processed
     /\ ~last.save_error
     /\ PriceWithCurrency
     /\ IsNullText(last.row.currency)
     /\ IsNull(last.row.vendor) \/ VendorsNamed(last.row.vendor) # {})
    => /\ product_db[LastPid].present
       /\ product_db[LastPid].list_price
            = [kind |-> "dec", cents |-> ParseFloat(PriceTokens[1]).cents]
       /\ product_db[LastPid].currency = Upper(PriceTokens[2])
       /\ ~last.faulty
       /\ LastAppended \in
            {<<Msg(kind, LastPid, Null, "")>> :
                kind \in IF RecordBefore.present
                         THEN {"updated", "unchanged"} ELSE {"created"}}

\* C15 witness: "10.5 eur" created product A at 10.50 EUR
C15_Witness ==
    /\ Processed
    /\ last.row.list_price.text = T_10_5_eur
    /\ last.created
    /\ product_db["A"].list_price = [kind |-> "dec", cents |-> 1050]
    /\ product_db["A"].currency = EUR
    /\ LastAppended = <<Msg("created", "A", Null, "")>>

\* the "list price" text of the last row has more than two tokens, or its
\* number token is no number
MalformedPrice ==
    /\ last.row.list_price.type = "str"
    /\ \/ Len(PriceTokens) > 2
       \/ ~ParseFloat(PriceTokens[1]).ok

C19_CurrencyColumnOverrides ==
    (/\ Processed
     /\ ~last.faulty
     /\ ~last.save_error
     /\ ~IsNullText(last.row.currency)
     /\ Upper(last.row.currency) \in {EUR, USD})
    => /\ product_db[LastPid].present
       /\ product_db[LastPid].currency = Upper(last.row.currency)

-----------------------------------------------------------------------------
(* Properties of the general specification Spec, continued                   *)

\* C17 (as claimed): no failure of a row ends the call: no iteration of the
\* row loop raises out of import_to_database, and a call that returned
\* has read every row unless it stopped at the error budget.
C17_RowFailuresRecovered ==
    /\ ~last.raised
    /\ (pc = "idle" /\ last_call = "import_to_database returned")
       => \/ current_entry = Len(wb_data_frame.rows) + 1
          \/ last.stopped

-----------------------------------------------------------------------------
(* SpecVerify: importers on workbooks whose header writes "product id" and   *)
(* "vendor" in lower case or with capitals, with or without surrounding      *)
(* blanks, or leaves them out, with or without the sheet; verify_file and    *)
(* import_to_database are called in any order.                               *)

\* the ways a header can write the column name: "vendor", "Vendor",
\* " vendor " and " Vendor "
Written(name) ==
    {[name |-> name, upper |-> u, padded |-> b] : u \in BOOLEAN, b \in BOOLEAN}

\* headers that write or leave out each of the two columns
VerifyHeaders ==
    {(AllColumns \ {Col("product id"), Col("vendor")}) \cup ids \cup vendors :
        ids \in {{}} \cup {{c} : c \in Written("product id")},
        vendors \in {{}} \cup {{c} : c \in Written("vendor")}}

VerifyRows ==
    { Row("A", "d1", StrPrice(T_10_5_EUR), NullText, "Acme", Null),
      Row("B", "d2", NullPrice, NullText, "Bolt", Null) }

VerifyWorkbooks ==
    {[sheet_names |-> names, columns |-> header, rows |-> rs] :
        names \in {{sheetname}, {"other"}},
        header \in VerifyHeaders,
        rs \in SeqsUpTo(VerifyRows, MaxRows)}

InitVerify ==
    \E wb \in VerifyWorkbooks : InitWith(wb, InitialProducts, WrittenOrder)

NextVerify ==
    \/ verify_file
    \/ verify_file_raises
    \/ \E mode \in BOOLEAN : import_to_database(mode)
    \/ import_to_database_raises
    \/ ProcessRow

SpecVerify == InitVerify /\ [][NextVerify]_vars

\* the column names as the reader exposes them to the row loop contain every
\* required column
NormalizedHeaderComplete ==
    required_keys \subseteq NormalizedColumns(workbook.columns)

\* C18 (as claimed): verify_file sets valid_file and returns exactly when the
\* sheet is there and the normalized column names (lower-cased and trimmed)
\* contain every required column, and raises otherwise, leaving valid_file
\* false; the frame that import_to_database reads for a verified file has every
\* required column.
C18_VerifyMatchesNormalizedHeader ==
    /\ last_call = "verify_file returned"
       => /\ valid_file
          /\ sheetname \in workbook.sheet_names
          /\ NormalizedHeaderComplete
    /\ last_call = "verify_file raised"
       => /\ ~valid_file
          /\ sheetname \notin workbook.sheet_names \/ ~NormalizedHeaderComplete
    /\ (valid_file /\ wb_data_frame.loaded)
       => required_keys \subseteq wb_data_frame.columns

-----------------------------------------------------------------------------
(* SpecGroup: one import of a workbook whose rows name a product, a vendor   *)
(* or none, and a product group or none, into the catalog with product B of  *)
(* vendor Acme, which has no product group.                                  *)

GroupRows ==
    { Row(pid, "d1", NullPrice, NullText, vendor, group) :
        pid \in ProductIds,
        vendor \in {"Acme", "Bolt", Null},
        group \in {"g1", "g2", Null} }

GroupWorkbooks ==
    {[sheet_names |-> {sheetname}, columns |-> AllColumns, rows |-> rs] :
        rs \in SeqsUpTo(GroupRows, MaxRows)}

InitGroup ==
    \E wb \in GroupWorkbooks : InitWith(wb, InitialProducts, WrittenOrder)

NextGroup ==
    \/ \E mode \in BOOLEAN : runs = 0 /\ import_to_database(mode)
    \/ ProcessRow

SpecGroup == InitGroup /\ [][NextGroup]_vars

\* C20 (as claimed): every persisted product that has a product group has a
\* group whose vendor is the product's own vendor, after any sequence of rows,
\* also after a row that changes the vendor of a product and names the group
\* name the product already has.
C20_GroupOfOwnVendor ==
    \A i \in ProductIds :
        (product_db[i].present /\ product_db[i].product_group # NoGroup)
            => product_db[i].product_group.vendor = product_db[i].vendor

-----------------------------------------------------------------------------
(* SpecReference: one import of a workbook whose rows name product A or B    *)
(* and fill any of the columns "eol note url", "eol note url (friendly       *)
(* name)" and "internal product id"; every other cell of a row of B holds    *)
(* what the record of B holds.                                               *)

ReferenceRows ==
    { [Row(pid, "d1", NullPrice, NullText, "Acme", Null)
         EXCEPT !.eol_note_url = url,
                !.eol_friendly_name = name,
                !.internal_product_id = internal] :
        pid \in ProductIds,
        url \in {Null, "u1", "u2"},
        name \in {Null, "n1"},
        internal \in {Null, "i1"} }

ReferenceWorkbooks ==
    {[sheet_names |-> {sheetname}, columns |-> AllColumns, rows |-> rs] :
        rs \in SeqsUpTo(ReferenceRows, MaxRows)}

InitReference ==
    \E wb \in ReferenceWorkbooks : InitWith(wb, InitialProducts, WrittenOrder)

NextReference ==
    \/ \E mode \in BOOLEAN : runs = 0 /\ import_to_database(mode)
    \/ ProcessRow

SpecReference == InitReference /\ [][NextReference]_vars

\* the cell is filled and differs from what the record held before the row
FilledAndDifferent(cell, current) == ~IsNull(cell) /\ cell # current

\* C21 (as claimed): after a non-faulty row, each of the fields
\* eol_reference_url, eol_reference_number and internal_product_id of the
\* persisted record holds the value of the row's column "eol note url",
\* "eol note url (friendly name)" or "internal product id" when that cell is
\* filled and differs from the record's value before the row, also when it is
\* the only field of the row that differs.
C21_ReferenceFieldsStored ==
    (Processed /\ ~last.faulty /\ ~last.lookup_error)
    => /\ FilledAndDifferent(last.row.eol_note_url,
                             RecordBefore.eol_reference_url)
          => product_db[LastPid].eol_reference_url = last.row.eol_note_url
       /\ FilledAndDifferent(last.row.eol_friendly_name,
                             RecordBefore.eol_reference_number)
          => product_db[LastPid].eol_reference_number
                 = last.row.eol_friendly_name
       /\ FilledAndDifferent(last.row.internal_product_id,
                             RecordBefore.internal_product_id)
          => product_db[LastPid].internal_product_id
                 = last.row.internal_product_id

\* C22 (as claimed): whatever the product lookup of a row gives (found, not
\* found, or an unexpected error in an update-only import), the row changes
\* and saves no record other than the one of its own "product id": every
\* other record and its revisions are as they were before the row, the object
\* the row's values were applied to is the record of the row's product id,
\* and a "created" or "updated" message of the row names that product id.
C22_RowTouchesOwnRecord ==
    (last.entry > 0 /\ ~last.raised)
    => /\ \A i \in ProductIds \ {LastPid} :
              /\ product_db[i] = last.db_before[i]
              /\ revisions[i] = last.revisions_before[i]
       /\ Processed => last.target = LastPid
       /\ \A k \in 1..Len(LastAppended) :
              LastAppended[k].kind \in {"created", "updated"}
                  => LastAppended[k].pid = LastPid

=============================================================================
